---- MODULE Spec2Model ----
(***************************************************************************)
(* Model of anchore_engine/services/catalog/image_content/                 *)
(* get_image_content.py: the ImageContentGetter hierarchy (base, manifest, *)
(* dockerfile with migration-on-read, multiple content types).             *)
(*                                                                         *)
(* A get() call is split at its external calls: the catalog lookup, the    *)
(* object-store read and the object-store write.  Everything a call does   *)
(* between two external calls is local to the getter instance and is part  *)
(* of the step that precedes it.                                           *)
(***************************************************************************)
EXTENDS Integers, Sequences, FiniteSets, TLC

VARIABLES
    db,                  \* catalog: image digest -> image record (read-only here)
    store,               \* object store: <<bucket, key>> -> stored blob
    store0,              \* the object store as it was initially (history)
    pc,                  \* per caller: position inside get()
    req,                 \* per caller: the getter instance (constructor arguments)
    image_report,        \* per caller: the record get() loaded
    image_content_data,  \* per caller: the in-memory content document
    fetched,             \* per caller: the document exactly as fetched (history)
    outcome,             \* per caller: what get() returned or raised
    nreads,              \* per caller: object-store reads of the current call (history)
    nwrites,             \* per caller: successful object-store writes of the call (history)
    nputs,               \* per caller: object-store writes attempted by the call (history)
    allow,               \* per caller: the allow_analyzing_state argument of get()
    migrated,            \* some write-back has succeeded (history)
    callers              \* the callers that make calls

vars == <<db, store, store0, pc, req, image_report, image_content_data,
          fetched, outcome, nreads, nwrites, nputs, allow, migrated, callers>>

----------------------------------------------------------------------------
(* Bounds *)

\* longest image_detail list of an image record
MaxDetails == 2

----------------------------------------------------------------------------
(* Data *)

Procs == {"p1", "p2"}

Account == "acct1"

ContentBucket == "image_content_data"
ManifestBucket == "manifest_data"

\* anchore_engine.common.image_content_types / image_metadata_types
image_content_types == {"os", "java"}
image_metadata_types == {"manifest", "dockerfile"}

\* taskstate.complete_state("analyze"), taskstate.working_state("analyze")
complete_state == "analyzed-complete"
working_state == "analyzing"
AnalysisStatuses == {"not-analyzed", "analyzing", "analyzed-complete", "failed"}

DockerfileModes == {"Actual", "Guessed"}

\* Legacy dockerfile bodies: strings, as sequences of characters.
BodyNone == <<>>
BodyA == <<"Q", "Q", "=", "=">>
BodyTruncated == <<"Q", "Q">>
BodyBlank == <<"\n">>
Bodies == {BodyNone, BodyA, BodyTruncated, BodyBlank}

\* Texts are sequences of code points, package payloads sequences of package ids.
TextA == <<65>>
OsPackages == <<1>>
JavaPackages == <<2>>
ManifestBody == <<3>>

SeqsUpTo(S, n) == UNION {[1..k -> S] : k \in 0..n}

NoRecord ==
    [exists |-> FALSE, imageDigest |-> "", analysis_status |-> "",
     dockerfile_mode |-> "", image_detail |-> <<>>]

Records(d) ==
    [exists : {TRUE}, imageDigest : {d}, analysis_status : AnalysisStatuses,
     dockerfile_mode : DockerfileModes, image_detail : SeqsUpTo(Bodies, MaxDetails)]

\* A stored blob: absent, not parseable as {"document": ...}, or an envelope.
BlobMissing == [state |-> "missing", document |-> <<>>]
BlobGarbage == [state |-> "garbage", document |-> <<>>]

\* Content documents: a mapping from content type to payload.
PayloadsOf(k) ==
    CASE k = "os" -> {OsPackages}
      [] k = "java" -> {JavaPackages}
      [] k = "dockerfile" -> {<<>>, TextA}

DocKeys == {"os", "java", "dockerfile"}

Documents ==
    UNION {{doc \in [ks -> UNION {PayloadsOf(k) : k \in ks}] :
               \A k \in ks : doc[k] \in PayloadsOf(k)} : ks \in SUBSET DocKeys}

----------------------------------------------------------------------------
(* Pure functions *)

\* str.lower() on the strings requests are made of
Lower(s) ==
    CASE s = "OS" -> "os"
      [] s = "ALL" -> "all"
      [] s = "Java" -> "java"
      [] OTHER -> s

\* The base64 alphabet, for the characters legacy bodies are made of.
B64Chars == {"A", "Q", "g", "w", "/"}
B64Val(c) ==
    CASE c = "A" -> 0
      [] c = "Q" -> 16
      [] c = "g" -> 32
      [] c = "w" -> 48
      [] c = "/" -> 63

\* binascii.a2b_base64 (non-strict), as base64.decodebytes runs it: characters
\* outside the alphabet are skipped, a complete pad sequence ends the input,
\* and leftover data characters are an error.
RECURSIVE A2bBase64(_, _, _, _, _, _)
A2bBase64(s, i, quad_pos, leftchar, pads, out) ==
    IF i > Len(s)
    THEN [ok |-> quad_pos = 0, bytes |-> out]
    ELSE
      LET c == s[i] IN
      IF c = "="
      THEN IF quad_pos >= 2 /\ quad_pos + pads + 1 >= 4
           THEN [ok |-> TRUE, bytes |-> out]
           ELSE A2bBase64(s, i + 1, quad_pos, leftchar,
                          IF quad_pos >= 2 THEN pads + 1 ELSE pads, out)
      ELSE IF c \notin B64Chars
      THEN A2bBase64(s, i + 1, quad_pos, leftchar, pads, out)
      ELSE
        LET v == B64Val(c) IN
        CASE quad_pos = 0 -> A2bBase64(s, i + 1, 1, v, 0, out)
          [] quad_pos = 1 ->
               A2bBase64(s, i + 1, 2, v % 16, 0,
                         Append(out, (leftchar * 4 + v \div 16) % 256))
          [] quad_pos = 2 ->
               A2bBase64(s, i + 1, 3, v % 4, 0,
                         Append(out, (leftchar * 16 + v \div 4) % 256))
          [] quad_pos = 3 ->
               A2bBase64(s, i + 1, 0, 0, 0,
                         Append(out, (leftchar * 64 + v) % 256))

decodebytes(s) == A2bBase64(s, 1, 0, 0, 0, <<>>)

\* utils.ensure_str on bytes: UTF-8 decoding.  One- and two-byte forms are
\* decoded; any other lead byte is reported as a decoding error.
RECURSIVE Utf8Decode(_, _, _)
Utf8Decode(b, i, out) ==
    IF i > Len(b)
    THEN [ok |-> TRUE, text |-> out]
    ELSE IF b[i] < 128
    THEN Utf8Decode(b, i + 1, Append(out, b[i]))
    ELSE IF b[i] >= 194 /\ b[i] <= 223 /\ i < Len(b)
            /\ b[i + 1] >= 128 /\ b[i + 1] <= 191
    THEN Utf8Decode(b, i + 2, Append(out, (b[i] - 192) * 64 + (b[i + 1] - 128)))
    ELSE [ok |-> FALSE, text |-> <<>>]

ensure_str(b) == Utf8Decode(b, 1, <<>>)

\* A decoder that accepts a truncated body, giving the bytes decoded so far
DecodeLegacy_Lenient(body) == ensure_str(decodebytes(body).bytes)

\* utils.ensure_str(base64.decodebytes(utils.ensure_bytes(body)))
DecodeLegacy(body) ==
    LET raw == decodebytes(body) IN
    IF raw.ok THEN ensure_str(raw.bytes) ELSE [ok |-> FALSE, text |-> <<>>]

\* helpers.make_image_content_response: the Response Formatter.  An
\* unsupported type or an empty payload gives the empty result.
EmptyResult == <<>>
make_image_content_response(content_type, content_data) ==
    IF content_type \notin image_content_types \cup image_metadata_types
    THEN EmptyResult
    ELSE IF content_data = <<>>
    THEN EmptyResult
    ELSE <<content_type, content_data>>

\* json.dumps({"document": doc}) and json.loads(blob)["document"]
Dumps(doc) == [state |-> "ok", document |-> doc]
Loads(blob) ==
    IF blob.state = "ok"
    THEN [ok |-> TRUE, document |-> blob.document]
    ELSE [ok |-> FALSE, document |-> <<>>]

----------------------------------------------------------------------------
(* Getter instances *)

NoContentTypes == [present |-> FALSE, items |-> <<>>]

\* ImageContentGetter.__init__ (also ImageManifestContentGetter and
\* ImageDockerfileContentGetter, which inherit it)
NewGetter(variant, account_id, content_type, image_digest) ==
    [variant |-> variant, account_id |-> account_id, content_type |-> content_type,
     content_types |-> NoContentTypes, image_digest |-> image_digest]

\* MultipleContentTypesGetter.__init__: content_type is None, and the attribute
\* content_types is set only when the argument is a non-empty list.
NewMultiGetter(account_id, content_types, image_digest) ==
    [variant |-> "multi", account_id |-> account_id, content_type |-> "None",
     content_types |->
        IF content_types # <<>>
        THEN [present |-> TRUE,
              items |-> [i \in DOMAIN content_types |-> Lower(content_types[i])]]
        ELSE NoContentTypes,
     image_digest |-> image_digest]

RequestedLists == {<<>>, <<"OS">>, <<"ALL">>, <<"java">>}

\* The image the calls are about; OtherDigest is another image's key in the store.
Digest == "d1"
OtherDigest == "d2"

DockerfileGetters ==
    {NewGetter("dockerfile", Account, t, Digest) : t \in {"dockerfile", "os"}}

Getters ==
    {NewGetter("base", Account, t, Digest) : t \in {"os", "dockerfile"}}
    \cup {NewGetter("manifest", Account, t, Digest) : t \in {"manifest", "os"}}
    \cup DockerfileGetters
    \cup {NewMultiGetter(Account, l, Digest) : l \in RequestedLists}

NoGetter == NewGetter("none", "", "", "")

\* __normalize_to_user_format_on_load__ and __verify_content_type__
normalize_to_user_format_on_load(variant) == variant \in {"base", "manifest"}
verify_content_type(variant) == variant \in {"base", "manifest", "dockerfile"}

----------------------------------------------------------------------------
(* Outcomes *)

NoDetail == [present |-> FALSE, account_id |-> "", content_type |-> "", image_digest |-> ""]

get_error_detail(g) ==
    [present |-> TRUE, account_id |-> g.account_id, content_type |-> g.content_type,
     image_digest |-> g.image_digest]

NoOutcome == [kind |-> "none", error |-> "", detail |-> NoDetail, value |-> <<>>]
Returned(v) == [kind |-> "ok", error |-> "", detail |-> NoDetail, value |-> v]
Raised(e, detail) == [kind |-> "error", error |-> e, detail |-> detail, value |-> <<>>]

----------------------------------------------------------------------------
(* The steps of get() *)

\* verify_analysis_status with the flag ignored: "analyzing" is always accepted
verify_analysis_status_IgnoresFlag(report, allow_analyzing_state) ==
    ~(report.exists /\ report.analysis_status \notin {complete_state, working_state})

\* verify_analysis_status: TRUE when the status is accepted
verify_analysis_status(report, allow_analyzing_state) ==
    LET allowed_states ==
            {complete_state} \cup (IF allow_analyzing_state THEN {working_state} ELSE {})
    IN  ~(report.exists /\ report.analysis_status \notin allowed_states)

\* The bucket get_image_content_data reads, per class
ReadBucket(variant) == IF variant = "manifest" THEN ManifestBucket ELSE ContentBucket

\* get_image_content_data with a failed read taken for an empty document
get_image_content_data_Swallows(g, st) ==
    LET got == Loads(st[<<ReadBucket(g.variant), g.image_digest>>]) IN
    IF g.variant = "manifest"
    THEN [ok |-> TRUE, document |-> [k \in {"manifest"} |-> got.document]]
    ELSE [ok |-> TRUE, document |-> got.document]

\* get_image_content_data: the base class returns the stored document, the
\* manifest class wraps the stored manifest under the key "manifest".
get_image_content_data(g, st) ==
    LET got == Loads(st[<<ReadBucket(g.variant), g.image_digest>>]) IN
    IF ~got.ok
    THEN [ok |-> FALSE, document |-> <<>>]
    ELSE IF g.variant = "manifest"
    THEN [ok |-> TRUE, document |-> [k \in {"manifest"} |-> got.document]]
    ELSE got

\* The content type check taking an empty payload for a missing type
ContentTypeMissing_Falsy(g, doc) ==
    verify_content_type(g.variant)
        /\ (g.content_type \notin DOMAIN doc \/ doc[g.content_type] = <<>>)

\* get(): "self.content_type not in image_content_data"
ContentTypeMissing(g, doc) ==
    verify_content_type(g.variant) /\ g.content_type \notin DOMAIN doc

\* _is_content_type_match without the supported-type test
is_content_type_match_NoRegistry(g, content_type) ==
    IF \E i \in DOMAIN g.content_types.items : g.content_types.items[i] = "all"
    THEN TRUE
    ELSE \E i \in DOMAIN g.content_types.items :
             g.content_types.items[i] = Lower(content_type)

\* MultipleContentTypesGetter._is_content_type_match
is_content_type_match(g, content_type) ==
    IF content_type \notin image_content_types
    THEN FALSE
    ELSE IF \E i \in DOMAIN g.content_types.items : g.content_types.items[i] = "all"
    THEN TRUE
    ELSE \E i \in DOMAIN g.content_types.items :
             g.content_types.items[i] = Lower(content_type)

\* MultipleContentTypesGetter.hydrate_additional_data
MultiHydrate(g, doc) ==
    IF DOMAIN doc = {}
    THEN Returned(<<>>)
    ELSE IF ~g.content_types.present
    THEN Raised("AttributeError", NoDetail)
    ELSE Returned([k \in {c \in DOMAIN doc : is_content_type_match(g, c)} |->
                      make_image_content_response(k, doc[k])])

\* The test asking for the key alone, whatever its payload
HasDockerfile_KeyOnly(doc) == "dockerfile" \in DOMAIN doc

\* dict.get("dockerfile", None) is truthy
HasDockerfile(doc) == "dockerfile" \in DOMAIN doc /\ doc["dockerfile"] # <<>>

\* The image_detail entry the migration loop stops at: the first one whose
\* dockerfile is not empty (0: there is none).
FirstLegacy(details) ==
    IF \E i \in DOMAIN details : details[i] # <<>>
    THEN CHOOSE i \in DOMAIN details :
             details[i] # <<>> /\ \A j \in 1..(i - 1) : details[j] = <<>>
    ELSE 0

\* The assignment left out: the in-memory document stays as fetched
WithDockerfile_Unset(doc, text) == doc

\* image_content_data["dockerfile"] = text
WithDockerfile(doc, text) ==
    [k \in DOMAIN doc \cup {"dockerfile"} |-> IF k = "dockerfile" THEN text ELSE doc[k]]

\* ImageDockerfileContentGetter.hydrate_additional_data up to the call of
\* obj_mgr.put: either the hook is about to return what the in-memory document
\* holds for the requested type, or it has set the decoded dockerfile in the
\* in-memory document and is about to write it back.
DockerfileMigration(doc, report) ==
    IF HasDockerfile(doc)
    THEN [step |-> "return", document |-> doc]
    ELSE IF report.dockerfile_mode # "Actual"
    THEN [step |-> "return", document |-> doc]
    ELSE
      LET i == FirstLegacy(report.image_detail) IN
      IF i = 0
      THEN [step |-> "return", document |-> doc]
      ELSE
        LET dec == DecodeLegacy(report.image_detail[i]) IN
        IF ~dec.ok
        THEN [step |-> "return", document |-> doc]
        ELSE [step |-> "put", document |-> WithDockerfile(doc, dec.text)]

\* The write-back going to the manifest bucket
PutKey_ManifestBucket(g, report) == <<ManifestBucket, report.imageDigest>>

\* The key obj_mgr.put writes: bucket image_content_data, image_report["imageDigest"]
PutKey(g, report) == <<ContentBucket, report.imageDigest>>

\* The closing "return helpers.make_image_content_response(...)" of the hook
FormatRequested(g, doc) == make_image_content_response(g.content_type, doc[g.content_type])

----------------------------------------------------------------------------
(* Actions *)

\* A caller constructs getter g and calls g.get(a).  get(), lines 53-62:
\* db_catalog_image.get, the "Image not found" check, verify_analysis_status.
Get(p, g, a) ==
    /\ p \in callers
    /\ pc[p] \in {"idle", "done"}
    /\ req' = [req EXCEPT ![p] = g]
    /\ allow' = [allow EXCEPT ![p] = a]
    /\ image_content_data' = [image_content_data EXCEPT ![p] = <<>>]
    /\ fetched' = [fetched EXCEPT ![p] = <<>>]
    /\ nreads' = [nreads EXCEPT ![p] = 0]
    /\ nwrites' = [nwrites EXCEPT ![p] = 0]
    /\ nputs' = [nputs EXCEPT ![p] = 0]
    /\ LET report == db[g.image_digest] IN
       IF ~report.exists
       THEN /\ outcome' = [outcome EXCEPT ![p] = Raised("NotFound", get_error_detail(g))]
            /\ pc' = [pc EXCEPT ![p] = "done"]
            /\ image_report' = [image_report EXCEPT ![p] = NoRecord]
       ELSE IF ~verify_analysis_status(report, a)
       THEN /\ outcome' = [outcome EXCEPT ![p] = Raised("InvalidState", get_error_detail(g))]
            /\ pc' = [pc EXCEPT ![p] = "done"]
            /\ image_report' = [image_report EXCEPT ![p] = report]
       ELSE /\ outcome' = [outcome EXCEPT ![p] = NoOutcome]
            /\ pc' = [pc EXCEPT ![p] = "fetch"]
            /\ image_report' = [image_report EXCEPT ![p] = report]
    /\ UNCHANGED <<db, store, store0, migrated, callers>>

Call(p) == \E g \in Getters, a \in BOOLEAN : Get(p, g, a)

CallDockerfile(p) == \E g \in DockerfileGetters, a \in BOOLEAN : Get(p, g, a)

\* get(), lines 64-78: get_image_content_data, the content type check, the
\* normalisation and the hook up to its first object-store write
Fetch(p) ==
    /\ pc[p] = "fetch"
    /\ nreads' = [nreads EXCEPT ![p] = @ + 1]
    /\ LET g == req[p]
           got == get_image_content_data(g, store)
           doc == got.document
       IN  IF ~got.ok
           THEN /\ outcome' = [outcome EXCEPT ![p] = Raised("UpstreamFailure", NoDetail)]
                /\ pc' = [pc EXCEPT ![p] = "done"]
                /\ UNCHANGED <<image_content_data, fetched>>
           ELSE IF ContentTypeMissing(g, doc)
           THEN /\ outcome' = [outcome EXCEPT ![p] = Raised("InvalidRequest", get_error_detail(g))]
                /\ pc' = [pc EXCEPT ![p] = "done"]
                /\ fetched' = [fetched EXCEPT ![p] = doc]
                /\ UNCHANGED image_content_data
           ELSE IF normalize_to_user_format_on_load(g.variant)
           THEN /\ outcome' = [outcome EXCEPT ![p] = Returned(FormatRequested(g, doc))]
                /\ pc' = [pc EXCEPT ![p] = "done"]
                /\ fetched' = [fetched EXCEPT ![p] = doc]
                /\ UNCHANGED image_content_data
           ELSE IF g.variant = "multi"
           THEN /\ outcome' = [outcome EXCEPT ![p] = MultiHydrate(g, doc)]
                /\ pc' = [pc EXCEPT ![p] = "done"]
                /\ fetched' = [fetched EXCEPT ![p] = doc]
                /\ UNCHANGED image_content_data
           ELSE LET m == DockerfileMigration(doc, image_report[p]) IN
                /\ fetched' = [fetched EXCEPT ![p] = doc]
                /\ IF m.step = "put"
                   THEN /\ image_content_data' = [image_content_data EXCEPT ![p] = m.document]
                        /\ pc' = [pc EXCEPT ![p] = "put"]
                        /\ UNCHANGED outcome
                   ELSE /\ outcome' = [outcome EXCEPT ![p] =
                                          Returned(FormatRequested(g, m.document))]
                        /\ pc' = [pc EXCEPT ![p] = "done"]
                        /\ UNCHANGED image_content_data
    /\ UNCHANGED <<db, store, store0, req, image_report, nwrites, nputs, allow,
                   migrated, callers>>

\* hydrate_additional_data, lines 148-166: obj_mgr.put of the re-serialised
\* document, which succeeds or raises; the exception is caught and the hook
\* returns what the in-memory document holds for the requested type.
Put(p) ==
    /\ pc[p] = "put"
    /\ \E succeeds \in BOOLEAN :
          IF succeeds
          THEN /\ store' = [store EXCEPT ![PutKey(req[p], image_report[p])] =
                               Dumps(image_content_data[p])]
               /\ nwrites' = [nwrites EXCEPT ![p] = @ + 1]
               /\ migrated' = TRUE
          ELSE UNCHANGED <<store, nwrites, migrated>>
    /\ nputs' = [nputs EXCEPT ![p] = @ + 1]
    /\ outcome' = [outcome EXCEPT ![p] =
                      Returned(FormatRequested(req[p], image_content_data[p]))]
    /\ pc' = [pc EXCEPT ![p] = "done"]
    /\ UNCHANGED <<db, store0, req, image_report, image_content_data, fetched,
                   nreads, allow, callers>>

----------------------------------------------------------------------------
(* Specifications *)

\* The other image's blobs, which no call is about.
OtherDocument == [k \in {"os"} |-> OsPackages]

\* The stores the calls start from: the image's content blob is absent,
\* unparseable or any document; its manifest blob is absent when the content
\* blob is unparseable and present otherwise.
Stores ==
    {[k \in {ContentBucket, ManifestBucket} \X {Digest, OtherDigest} |->
        IF k[2] = OtherDigest
        THEN (IF k[1] = ContentBucket THEN Dumps(OtherDocument) ELSE Dumps(ManifestBody))
        ELSE IF k[1] = ContentBucket THEN c
        ELSE IF c = BlobGarbage THEN BlobMissing ELSE Dumps(ManifestBody)] :
       c \in {BlobMissing, BlobGarbage} \cup {Dumps(doc) : doc \in Documents}}

Catalogs ==
    {[d \in {Digest, OtherDigest} |-> IF d = Digest THEN r ELSE NoRecord] :
       r \in Records(Digest) \cup {NoRecord}}

InitEnv ==
    /\ db \in Catalogs
    /\ store \in Stores
    /\ store0 = store
    /\ pc = [p \in Procs |-> "idle"]
    /\ req = [p \in Procs |-> NoGetter]
    /\ allow = [p \in Procs |-> FALSE]
    /\ image_report = [p \in Procs |-> NoRecord]
    /\ image_content_data = [p \in Procs |-> <<>>]
    /\ fetched = [p \in Procs |-> <<>>]
    /\ outcome = [p \in Procs |-> NoOutcome]
    /\ nreads = [p \in Procs |-> 0]
    /\ nwrites = [p \in Procs |-> 0]
    /\ nputs = [p \in Procs |-> 0]
    /\ migrated = FALSE

\* One caller, making calls of every kind one after another.
Init == InitEnv /\ callers = {"p1"}

Next == \E p \in Procs : Call(p) \/ Fetch(p) \/ Put(p)

Spec == Init /\ [][Next]_vars

\* Two callers making Dockerfile calls concurrently on an analysed image
\* whose content document is stored.
InitConc ==
    /\ InitEnv
    /\ callers = Procs
    /\ db[Digest].exists
    /\ db[Digest].analysis_status = complete_state
    /\ store[<<ContentBucket, Digest>>].state = "ok"

NextConc == \E p \in Procs : CallDockerfile(p) \/ Fetch(p) \/ Put(p)

SpecConc == InitConc /\ [][NextConc]_vars

----------------------------------------------------------------------------
(* Vocabulary of the properties *)

\* The statuses a read accepts, as the specification lists them.
AllowedStatuses(a) ==
    IF a THEN {"analyzed-complete", "analyzing"} ELSE {"analyzed-complete"}

\* What base64-decoding a legacy body gives: "QQ==" is the text "A", a lone
\* newline is the empty text, "QQ" is not decodable.
Decodable(body) == body \in {BodyA, BodyBlank}
LegacyText(body) == IF body = BodyA THEN <<65>> ELSE <<>>

\* The first image_detail entry that carries a non-empty legacy body.
HasLegacy(details) == \E i \in DOMAIN details : details[i] # <<>>
FirstLegacyBody(details) ==
    details[CHOOSE i \in DOMAIN details :
                details[i] # <<>> /\ \A j \in DOMAIN details : j < i => details[j] = <<>>]

Started(p) == pc[p] # "idle"
Done(p) == pc[p] = "done"
Failed(p, e) == outcome[p].kind = "error" /\ outcome[p].error = e
Succeeded(p) == outcome[p].kind = "ok"

RecordOf(p) == db[req[p].image_digest]
RecordUsable(p) ==
    RecordOf(p).exists /\ RecordOf(p).analysis_status \in AllowedStatuses(allow[p])

\* The blob the call's variant reads, and the document it holds.
BlobOf(p) ==
    store[<<IF req[p].variant = "manifest" THEN "manifest_data" ELSE "image_content_data",
            req[p].image_digest>>]
BlobReadable(p) == BlobOf(p).state = "ok"

SingleType(p) == req[p].variant \in {"base", "manifest", "dockerfile"}

\* A call that passed the lookup, the status check and the fetch.
Fetched(p) == Done(p) /\ RecordUsable(p) /\ nreads[p] = 1 /\ ~Failed(p, "UpstreamFailure")

----------------------------------------------------------------------------
(* C3 *)

\* C3: for every variant and every existing record, get(allowAnalyzingState)
\* fails with InvalidState exactly when the record's status is outside the
\* allowed set: {analyzed-complete}, plus analyzing when the flag is true.
C3_StatusGate ==
    \A p \in Procs :
        Started(p) /\ RecordOf(p).exists =>
            (Failed(p, "InvalidState")
                <=> RecordOf(p).analysis_status \notin AllowedStatuses(allow[p]))

\* An "analyzing" record was rejected by a Multi-Type call made without the flag.
C3_Witness ==
    \E p \in Procs :
        /\ Done(p) /\ RecordOf(p).exists
        /\ RecordOf(p).analysis_status = "analyzing"
        /\ ~allow[p]
        /\ Failed(p, "InvalidState")
        /\ req[p].variant = "multi"

----------------------------------------------------------------------------
(* C10 *)

\* The error the order lookup, status, fetch, presence check gives.
FirstFailure(p) ==
    IF ~RecordOf(p).exists THEN "NotFound"
    ELSE IF RecordOf(p).analysis_status \notin AllowedStatuses(allow[p]) THEN "InvalidState"
    ELSE IF ~BlobReadable(p) THEN "UpstreamFailure"
    ELSE IF SingleType(p)
            /\ (IF req[p].variant = "manifest"
                THEN req[p].content_type # "manifest"
                ELSE req[p].content_type \notin DOMAIN BlobOf(p).document)
    THEN "InvalidRequest"
    ELSE "none"

\* C10: get() runs lookup, status validation, fetch, presence check and hook in
\* that order and stops at the first failure: a finished call reports the
\* earliest of NotFound, InvalidState, UpstreamFailure, InvalidRequest whose
\* condition holds (and none of them when no condition holds), and the object
\* store is not read when the record is absent or its status is not allowed.
C10_Order ==
    \A p \in Procs :
        /\ Started(p) /\ ~RecordUsable(p) => Done(p) /\ nreads[p] = 0
        /\ Done(p) =>
              /\ FirstFailure(p) # "none" => Failed(p, FirstFailure(p))
              /\ FirstFailure(p) = "none" =>
                    outcome[p].error \notin
                        {"NotFound", "InvalidState", "UpstreamFailure", "InvalidRequest"}

\* A record with a rejected status whose blob is also unreadable: the call
\* reported InvalidState and did not read the store.
C10_Witness ==
    \E p \in Procs :
        /\ Done(p)
        /\ RecordOf(p).exists /\ RecordOf(p).analysis_status = "failed"
        /\ ~BlobReadable(p)
        /\ Failed(p, "InvalidState")
        /\ nreads[p] = 0

----------------------------------------------------------------------------
(* C6 *)

\* C6: every NotFound, InvalidState, InvalidRequest and UpstreamFailure that
\* get() raises carries a detail object with the request's account id, content
\* type (or selector) and image digest.
C6_ErrorDetail ==
    \A p \in Procs :
        Done(p) /\ outcome[p].kind = "error"
            /\ outcome[p].error \in
                  {"NotFound", "InvalidState", "InvalidRequest", "UpstreamFailure"} =>
            /\ outcome[p].detail.present
            /\ outcome[p].detail.account_id = req[p].account_id
            /\ outcome[p].detail.content_type = req[p].content_type
            /\ outcome[p].detail.image_digest = req[p].image_digest

----------------------------------------------------------------------------
(* C5 *)

\* C5: a Multi-Type get() on a usable record whose fetch succeeded returns an
\* empty mapping, and no error, whenever the fetched document is empty or the
\* requested list is empty or absent.
C5_EmptyIsEmpty ==
    \A p \in Procs :
        Done(p) /\ req[p].variant = "multi" /\ RecordUsable(p) /\ BlobReadable(p)
            /\ (DOMAIN BlobOf(p).document = {} \/ req[p].content_types.items = <<>>) =>
            Succeeded(p) /\ DOMAIN outcome[p].value = {}

----------------------------------------------------------------------------
(* C4 *)

\* The keys the specification selects for a requested list l.
SelectedKeys(doc, l) ==
    {k \in DOMAIN doc :
        /\ k \in image_content_types
        /\ \/ \E i \in DOMAIN l : Lower(l[i]) = "all"
           \/ \E i \in DOMAIN l : Lower(l[i]) = Lower(k)}

\* C4: a Multi-Type get() on a usable record with a non-empty document and a
\* non-empty requested list returns a mapping whose keys are exactly the
\* document keys that are registry-supported and requested (by "all" or by
\* their lower-cased name, the requested names compared lower-cased), each
\* mapped to the formatter applied to its payload.
C4_Projection ==
    \A p \in Procs : \A l \in RequestedLists :
        Done(p) /\ req[p] = NewMultiGetter(Account, l, Digest) /\ l # <<>>
            /\ RecordUsable(p) /\ BlobReadable(p) /\ DOMAIN BlobOf(p).document # {} =>
            LET doc == BlobOf(p).document IN
            /\ Succeeded(p)
            /\ DOMAIN outcome[p].value = SelectedKeys(doc, l)
            /\ \A k \in SelectedKeys(doc, l) :
                  outcome[p].value[k] = make_image_content_response(k, doc[k])

\* The request ["OS"] against a document holding os, java and dockerfile
\* returned os alone.
C4_Witness ==
    \E p \in Procs :
        /\ Done(p) /\ Succeeded(p)
        /\ req[p] = NewMultiGetter(Account, <<"OS">>, Digest)
        /\ DOMAIN BlobOf(p).document = {"os", "java", "dockerfile"}
        /\ DOMAIN outcome[p].value = {"os"}

----------------------------------------------------------------------------
(* The Dockerfile Variant *)

\* A Dockerfile call that passed the lookup, the status check, the fetch and
\* the presence check.
DockerfileHook(p) ==
    /\ req[p].variant = "dockerfile"
    /\ Fetched(p)
    /\ req[p].content_type \in DOMAIN fetched[p]

\* dict.get("dockerfile") gives nothing usable: no key, or an empty payload.
NoUsableDockerfile(doc) == "dockerfile" \notin DOMAIN doc \/ doc["dockerfile"] = <<>>

\* The document with "dockerfile" set to the given text.
Plus(doc, text) ==
    [k \in DOMAIN doc \cup {"dockerfile"} |-> IF k = "dockerfile" THEN text ELSE doc[k]]

\* The image's content document as the object store holds it now.
StoredDocument == store[<<"image_content_data", Digest>>].document

\* The call's migration applies: mode "Actual", nothing usable fetched, and a
\* non-empty legacy body on the record.
MigrationApplies(p) ==
    /\ RecordOf(p).dockerfile_mode = "Actual"
    /\ NoUsableDockerfile(fetched[p])
    /\ HasLegacy(RecordOf(p).image_detail)

----------------------------------------------------------------------------
(* C1 *)

\* C1 as stated: a Dockerfile get() for "dockerfile" on a usable record with
\* mode "Actual", a stored document without the key "dockerfile" and one
\* imageDetails entry with a valid body B returns the formatted decode(B) and
\* leaves "dockerfile" = decode(B) in the stored document.
C1_MigratesMissingKey ==
    \A p \in Procs :
        Done(p) /\ req[p].variant = "dockerfile" /\ req[p].content_type = "dockerfile"
            /\ Fetched(p)
            /\ RecordOf(p).dockerfile_mode = "Actual"
            /\ "dockerfile" \notin DOMAIN fetched[p]
            /\ Len(RecordOf(p).image_detail) = 1
            /\ Decodable(RecordOf(p).image_detail[1]) =>
            LET text == LegacyText(RecordOf(p).image_detail[1]) IN
            /\ Succeeded(p)
            /\ outcome[p].value = make_image_content_response("dockerfile", text)
            /\ "dockerfile" \in DOMAIN StoredDocument
            /\ StoredDocument["dockerfile"] = text

\* C1 amended: the same with the key "dockerfile" present with an empty
\* payload: the call returns the formatted decode(B), and when its write-back
\* succeeded the stored document holds "dockerfile" = decode(B).
C1_MigratesEmptyKey ==
    \A p \in Procs :
        Done(p) /\ req[p].variant = "dockerfile" /\ req[p].content_type = "dockerfile"
            /\ Fetched(p)
            /\ RecordOf(p).dockerfile_mode = "Actual"
            /\ "dockerfile" \in DOMAIN fetched[p] /\ fetched[p]["dockerfile"] = <<>>
            /\ Len(RecordOf(p).image_detail) = 1
            /\ Decodable(RecordOf(p).image_detail[1]) =>
            LET text == LegacyText(RecordOf(p).image_detail[1]) IN
            /\ Succeeded(p)
            /\ outcome[p].value = make_image_content_response("dockerfile", text)
            /\ nputs[p] = 1
            /\ nwrites[p] = 1 =>
                  /\ "dockerfile" \in DOMAIN StoredDocument
                  /\ StoredDocument["dockerfile"] = text

\* A record whose only legacy body is "QQ==" was read with an empty
\* "dockerfile" entry stored: the call returned the text "A" formatted and
\* the stored document now holds it.
C1_Witness ==
    \E p \in Procs :
        /\ Done(p) /\ req[p].variant = "dockerfile" /\ req[p].content_type = "dockerfile"
        /\ RecordOf(p).image_detail = <<BodyA>>
        /\ "dockerfile" \in DOMAIN fetched[p] /\ fetched[p]["dockerfile"] = <<>>
        /\ nwrites[p] = 1
        /\ outcome[p].value = <<"dockerfile", <<65>>>>
        /\ StoredDocument["dockerfile"] = <<65>>

----------------------------------------------------------------------------
(* C2 *)

\* The document the presence check of a single-type call looks at.
CheckedDocument(p) ==
    IF req[p].variant = "manifest"
    THEN [k \in {"manifest"} |-> BlobOf(p).document]
    ELSE fetched[p]

\* The text a Dockerfile call's migration decodes, when it decodes one.
Migrates(p) ==
    /\ req[p].variant = "dockerfile"
    /\ MigrationApplies(p)
    /\ Decodable(FirstLegacyBody(RecordOf(p).image_detail))
MigratedText(p) == LegacyText(FirstLegacyBody(RecordOf(p).image_detail))

\* C2 as stated: a single-type get() that passed lookup, status check and fetch
\* fails with InvalidRequest exactly when the requested type is not a key of
\* the fetched document, and a key present with an empty payload gives the
\* formatted empty result.
C2_PresenceCheck ==
    \A p \in Procs :
        Done(p) /\ SingleType(p) /\ Fetched(p) =>
            /\ Failed(p, "InvalidRequest")
                  <=> req[p].content_type \notin DOMAIN CheckedDocument(p)
            /\ req[p].content_type \in DOMAIN CheckedDocument(p)
                  /\ CheckedDocument(p)[req[p].content_type] = <<>> =>
                  /\ Succeeded(p)
                  /\ outcome[p].value =
                        make_image_content_response(req[p].content_type, <<>>)

\* C2 amended: as stated, except that a Dockerfile call for "dockerfile" whose
\* migration decodes a legacy body returns that text formatted instead of the
\* empty result.
C2_PresenceCheckAmended ==
    \A p \in Procs :
        Done(p) /\ SingleType(p) /\ Fetched(p) =>
            /\ Failed(p, "InvalidRequest")
                  <=> req[p].content_type \notin DOMAIN CheckedDocument(p)
            /\ req[p].content_type \in DOMAIN CheckedDocument(p)
                  /\ CheckedDocument(p)[req[p].content_type] = <<>> =>
                  /\ Succeeded(p)
                  /\ outcome[p].value =
                        IF Migrates(p) /\ req[p].content_type = "dockerfile"
                        THEN make_image_content_response("dockerfile", MigratedText(p))
                        ELSE make_image_content_response(req[p].content_type, <<>>)

\* A base call for "dockerfile" found the key with an empty payload and
\* returned the empty result.
C2_Witness ==
    \E p \in Procs :
        /\ Done(p) /\ req[p].variant = "base" /\ req[p].content_type = "dockerfile"
        /\ Fetched(p)
        /\ "dockerfile" \in DOMAIN fetched[p] /\ fetched[p]["dockerfile"] = <<>>
        /\ Succeeded(p) /\ outcome[p].value = <<>>

----------------------------------------------------------------------------
(* C7 *)

\* The migration of the call failed: its legacy body did not decode, or its
\* write-back was refused.
DecodeFailed(p) ==
    MigrationApplies(p) /\ ~Decodable(FirstLegacyBody(RecordOf(p).image_detail))
WriteFailed(p) == nputs[p] = 1 /\ nwrites[p] = 0

\* C7 as stated: when the migration of a Dockerfile call fails (decode error or
\* write-back failure), get() does not fail and returns the formatter applied
\* to the requested type's payload of the document as originally fetched.
C7_FailureFallsBack ==
    \A p \in Procs :
        DockerfileHook(p) /\ (DecodeFailed(p) \/ WriteFailed(p)) =>
            /\ Succeeded(p)
            /\ outcome[p].value =
                  make_image_content_response(req[p].content_type,
                                              fetched[p][req[p].content_type])

\* C7 amended: get() does not fail in either case; after a decode error it
\* returns the formatter applied to the requested type's payload of the
\* document as fetched, and after a write-back failure the formatter applied
\* to the requested type's payload of the fetched document with "dockerfile"
\* already set to the decoded text.
C7_FailureIsNotFatal ==
    \A p \in Procs :
        /\ DockerfileHook(p) /\ DecodeFailed(p) =>
              /\ Succeeded(p)
              /\ nputs[p] = 0
              /\ outcome[p].value =
                    make_image_content_response(req[p].content_type,
                                                fetched[p][req[p].content_type])
        /\ DockerfileHook(p) /\ WriteFailed(p) =>
              /\ Succeeded(p)
              /\ outcome[p].value =
                    make_image_content_response(
                        req[p].content_type,
                        Plus(fetched[p], MigratedText(p))[req[p].content_type])

\* A write-back of the text "A" was refused and the call for "dockerfile"
\* returned "A" formatted; the stored entry is still empty.
C7_Witness ==
    \E p \in Procs :
        /\ DockerfileHook(p) /\ WriteFailed(p)
        /\ req[p].content_type = "dockerfile"
        /\ fetched[p]["dockerfile"] = <<>>
        /\ outcome[p].value = <<"dockerfile", <<65>>>>
        /\ StoredDocument["dockerfile"] = <<>>

----------------------------------------------------------------------------
(* C9 *)

\* Everything that must hold for a call to write.
MayWrite(p) ==
    /\ req[p].variant = "dockerfile"
    /\ RecordUsable(p)
    /\ nreads[p] = 1
    /\ req[p].content_type \in DOMAIN fetched[p]
    /\ MigrationApplies(p)

\* A step in which caller p attempts a write, and one in which it writes.
AttemptsWrite(p) == nputs'[p] > nputs[p]
Writes(p) == nwrites'[p] > nwrites[p]

\* The store changes only by a write; only a call that may write attempts one,
\* and only once; a write puts the fetched document plus "dockerfile" = the
\* decoded first non-empty body under the image's key of the primary bucket.
WriteFrame ==
    /\ store' # store => \E p \in Procs : Writes(p)
    /\ \A p \in Procs :
          /\ AttemptsWrite(p) => MayWrite(p) /\ nputs[p] = 0
          /\ Writes(p) =>
                /\ AttemptsWrite(p)
                /\ store' = [store EXCEPT ![<<"image_content_data", req[p].image_digest>>] =
                                [state |-> "ok",
                                 document |-> Plus(fetched[p], MigratedText(p))]]

\* C9 as stated: a get() leaves the object store unchanged unless it is a
\* Dockerfile call on a usable record that fetched a document with no
\* non-empty "dockerfile" entry, in mode "Actual", with a non-empty legacy
\* body; then it writes at most once, the fetched document plus the decoded
\* body under the key it read; and no get() made after a successful migration
\* writes.
C9_WriteFrame ==
    /\ [][WriteFrame]_vars
    /\ [](\A p \in Procs : pc[p] = "put" => ~migrated)

\* C9 amended: the same, the last part holding for a get() made after a
\* migration that stored a non-empty dockerfile text.
C9_WriteFrameAmended ==
    /\ [][WriteFrame]_vars
    /\ [](\A p \in Procs :
             pc[p] = "put" => ~(migrated /\ ~NoUsableDockerfile(StoredDocument)))

\* A Dockerfile call has written the migrated document, and the stored entry
\* is the text "A".
C9_Witness ==
    \E p \in Procs :
        /\ Done(p) /\ nwrites[p] = 1
        /\ migrated
        /\ StoredDocument["dockerfile"] = <<65>>
        /\ "os" \in DOMAIN StoredDocument

----------------------------------------------------------------------------
(* C8 *)

\* The image's content document as the object store held it initially.
InitialDocument == store0[<<"image_content_data", Digest>>].document

\* The record is un-migrated: mode "Actual", a non-empty legacy body, and no
\* usable "dockerfile" entry stored.
Unmigrated ==
    /\ db[Digest].dockerfile_mode = "Actual"
    /\ HasLegacy(db[Digest].image_detail)
    /\ NoUsableDockerfile(InitialDocument)

\* Both callers have finished a Dockerfile call for the same content type,
\* one the stored document holds.
BothFinished ==
    /\ \A p \in Procs : Done(p) /\ req[p].variant = "dockerfile"
    /\ req["p1"].content_type = req["p2"].content_type
    /\ req["p1"].content_type \in DOMAIN InitialDocument

====
